---- MODULE Spec2Model ----
(***************************************************************************)
(* Mocha log viewer backend (src/main.c): the incremental file reader      *)
(* read_file with its JSON encoding json_escape, and the recent-files      *)
(* store get_recent_files / add_recent_file.                               *)
(*                                                                         *)
(* Texts (file contents, C strings, payloads) are byte strings.  A byte    *)
(* string is kept run-length encoded: a sequence of runs [ch, n], n >= 1,  *)
(* adjacent runs holding different bytes, so that a 10 MiB file is a       *)
(* value the model can hold.  Every operator below computes on the byte    *)
(* string the runs stand for.                                              *)
(***************************************************************************)
EXTENDS Integers, Sequences, FiniteSets, TLC

VARIABLES
  file,          \* content of the tailed file
  appends,       \* how many times the file was appended to
  cuts,          \* how many times the file was cut
  viewer,        \* the viewer's FileReadState and what it has received
  lastRead,      \* the last read_file call: its inputs and what it returned
  store,         \* recent.json: [exists, text]
  clock,         \* time(NULL), seconds
  adds,          \* how many add_recent_file calls were made
  lastAdd,       \* the last add_recent_file / get_recent_files exchange
  pc,            \* per client: position inside add_recent_file
  loc,           \* per client: locals of add_recent_file
  input,         \* json_escape: the bytes handed to it
  escaped        \* json_escape: what it returned

vars == <<file, appends, cuts, viewer, lastRead, store, clock, adds, lastAdd,
          pc, loc, input, escaped>>

(***************************************************************************)
(* Bounds of the model                                                     *)
(***************************************************************************)
MaxAppends == 3
MaxCuts == 1
MaxEscLen == 3
MaxClock == 2
MaxAdds == 3

(***************************************************************************)
(* Program constants                                                       *)
(***************************************************************************)
MAX_FILE_SIZE == 10 * 1024 * 1024

QUOTE == 34
BACKSLASH == 92

(***************************************************************************)
(* Byte strings as runs                                                    *)
(***************************************************************************)
Run(c, n) == [ch |-> c, n |-> n]

\* concatenation
RCat(a, b) ==
  IF a = <<>> THEN b
  ELSE IF b = <<>> THEN a
  ELSE IF a[Len(a)].ch = b[1].ch
       THEN SubSeq(a, 1, Len(a) - 1)
            \o <<Run(b[1].ch, a[Len(a)].n + b[1].n)>> \o Tail(b)
       ELSE a \o b

\* The operators on long strings split the runs in halves, which keeps the
\* evaluation shallow; each computes what its one-line reading says.
Left(s) == SubSeq(s, 1, Len(s) \div 2)
Right(s) == SubSeq(s, (Len(s) \div 2) + 1, Len(s))

\* the bytes held by the runs lo..hi of s
RECURSIVE SumRange(_, _, _)
SumRange(s, lo, hi) ==
  IF lo > hi THEN 0
  ELSE IF lo = hi THEN s[lo].n
  ELSE SumRange(s, lo, (lo + hi) \div 2)
       + SumRange(s, ((lo + hi) \div 2) + 1, hi)

\* strlen / length of the byte string
RLen(s) == SumRange(s, 1, Len(s))

\* the byte string of a plain sequence of bytes
RECURSIVE FromSeq(_)
FromSeq(q) ==
  IF q = <<>> THEN <<>>
  ELSE IF Len(q) = 1 THEN <<Run(q[1], 1)>>
  ELSE RCat(FromSeq(Left(q)), FromSeq(Right(q)))

\* where byte position k falls among the runs lo..hi: i runs lie wholly
\* within the first k bytes, and rest bytes of run i + 1 do
RECURSIVE Locate(_, _, _, _)
Locate(s, k, lo, hi) ==
  IF lo > hi THEN [i |-> lo - 1, rest |-> k]
  ELSE IF lo = hi
  THEN IF s[lo].n <= k THEN [i |-> lo, rest |-> k - s[lo].n]
       ELSE [i |-> lo - 1, rest |-> k]
  ELSE LET mid == (lo + hi) \div 2
           ls  == SumRange(s, lo, mid)
       IN IF k >= ls THEN Locate(s, k - ls, mid + 1, hi)
          ELSE Locate(s, k, lo, mid)

\* the bytes from position k on (s + k)
RDrop(s, k) ==
  IF k <= 0 \/ s = <<>> THEN s
  ELSE LET at == Locate(s, k, 1, Len(s))
       IN IF at.i = Len(s) THEN <<>>
          ELSE IF at.rest = 0 THEN SubSeq(s, at.i + 1, Len(s))
          ELSE <<Run(s[at.i + 1].ch, s[at.i + 1].n - at.rest)>>
               \o SubSeq(s, at.i + 2, Len(s))

\* the first k bytes
RTake(s, k) ==
  IF k <= 0 \/ s = <<>> THEN <<>>
  ELSE LET at == Locate(s, k, 1, Len(s))
       IN IF at.i = Len(s) \/ at.rest = 0 THEN SubSeq(s, 1, at.i)
          ELSE SubSeq(s, 1, at.i) \o <<Run(s[at.i + 1].ch, at.rest)>>

\* the first k bytes as a plain sequence (k small)
RECURSIVE RPlain(_, _)
RPlain(s, k) ==
  IF k <= 0 \/ s = <<>> THEN <<>>
  ELSE <<Head(s).ch>> \o RPlain(RDrop(s, 1), k - 1)

\* s begins with the byte string lit
RStartsWith(s, lit) == RTake(s, RLen(lit)) = lit

\* n copies of the plain sequence q
RECURSIVE RRep(_, _)
RRep(q, n) ==
  IF n = 0 THEN <<>>
  ELSE IF Len(q) = 1 THEN <<Run(q[1], n)>>
  ELSE RCat(FromSeq(q), RRep(q, n - 1))

\* index (1-based, in bytes) of the last occurrence of c, 0 if none: strrchr
RECURSIVE LastIndexFrom(_, _, _, _)
LastIndexFrom(s, c, pos, found) ==
  IF s = <<>> THEN found
  ELSE LastIndexFrom(Tail(s), c, pos + Head(s).n,
                     IF Head(s).ch = c THEN pos + Head(s).n ELSE found)

strrchr(s, c) == LastIndexFrom(s, c, 0, 0)

(***************************************************************************)
(* printf conversions                                                      *)
(***************************************************************************)
HexChar(d) == IF d < 10 THEN 48 + d ELSE 87 + d

\* "%04x"
Hex04(c) ==
  <<HexChar((c \div 4096) % 16), HexChar((c \div 256) % 16),
    HexChar((c \div 16) % 16), HexChar(c % 16)>>

RECURSIVE DecDigits(_)
DecDigits(v) ==
  IF v < 10 THEN <<48 + v>> ELSE DecDigits(v \div 10) \o <<48 + (v % 10)>>

\* "%ld" / "%lld"
Dec(v) == IF v < 0 THEN <<45>> \o DecDigits(0 - v) ELSE DecDigits(v)

(***************************************************************************)
(* json_escape                                                             *)
(***************************************************************************)

\* a variant of the per-byte escape without the case for the backslash
EscapeByteNoBackslash(c) ==
  CASE c = QUOTE -> <<BACKSLASH, QUOTE>>
    [] c = 8 -> <<BACKSLASH, 98>>
    [] c = 12 -> <<BACKSLASH, 102>>
    [] c = 10 -> <<BACKSLASH, 110>>
    [] c = 13 -> <<BACKSLASH, 114>>
    [] c = 9 -> <<BACKSLASH, 116>>
    [] OTHER -> IF c < 32 THEN <<BACKSLASH, 117>> \o Hex04(c) ELSE <<c>>

\* what the switch emits for one byte
EscapeByte(c) ==
  CASE c = QUOTE     -> <<BACKSLASH, QUOTE>>
    [] c = BACKSLASH -> <<BACKSLASH, BACKSLASH>>
    [] c = 8         -> <<BACKSLASH, 98>>
    [] c = 12        -> <<BACKSLASH, 102>>
    [] c = 10        -> <<BACKSLASH, 110>>
    [] c = 13        -> <<BACKSLASH, 114>>
    [] c = 9         -> <<BACKSLASH, 116>>
    [] OTHER         -> IF c < 32 THEN <<BACKSLASH, 117>> \o Hex04(c)
                        ELSE <<c>>

\* the loop over the bytes
RECURSIVE EscapeAll(_)
EscapeAll(str) ==
  IF str = <<>> THEN <<>>
  ELSE RCat(RRep(EscapeByte(Head(str).ch), Head(str).n),
            EscapeAll(Tail(str)))

\* json_escape(str, len), malloc having succeeded
json_escape(str, len) == EscapeAll(RTake(str, len))

(***************************************************************************)
(* The file system and the allocator as the handlers see them.  env.fail   *)
(* names the first call that fails if the handler reaches it (every such   *)
(* failure ends the handler, so a later one could not be observed);        *)
(* env.short is how fread comes back: with every byte asked for, one byte  *)
(* short, or with nothing (an I/O error, or the file cut after stat).      *)
(* A short read followed by a failed allocation returns what the failed    *)
(* allocation alone returns.                                               *)
(***************************************************************************)
FailPoints ==
  {"none", "stat", "open", "malloc_content", "malloc_escape",
   "malloc_response"}

ShortReads == {"full", "one_less", "nothing"}

\* a short read is told apart only when nothing else fails
Envs ==
  { [fail |-> x, short |-> "full"] : x \in FailPoints }
  \cup { [fail |-> "none", short |-> y] : y \in ShortReads }

Null == [null |-> TRUE, s |-> <<>>]
Ptr(s) == [null |-> FALSE, s |-> s]

\* json_escape not called yet
NotEscaped == [called |-> FALSE, null |-> TRUE, s |-> <<>>]

\* handles: [open: handles now open, total: fopen calls that succeeded]
NoHandles == [open |-> 0, total |-> 0]
fopen(h) == [open |-> h.open + 1, total |-> h.total + 1]
fclose(h) == [open |-> h.open - 1, total |-> h.total]

\* fread(content, 1, read_size, f) after fseek(f, read_start)
fread(fp, pos, count, e) ==
  LET want == IF count < 0 THEN 0 ELSE count
      got  == CASE e.short = "full"     -> want
                [] e.short = "one_less" -> IF want > 0 THEN want - 1 ELSE 0
                [] OTHER                -> 0
  IN RTake(RDrop(fp, pos), got)

\* snprintf(buf, size, ...): at most size - 1 bytes are kept
snprintf(size, text) == RTake(text, size - 1)

\* name = strrchr(path, '/'); if (!name) name = strrchr(path, '\\');
\* name = name ? name + 1 : path
basename(path) ==
  LET i == strrchr(path, 47)
      j == IF i = 0 THEN strrchr(path, BACKSLASH) ELSE i
  IN RDrop(path, j)

(***************************************************************************)
(* read_file                                                               *)
(***************************************************************************)
\* {"success":false,"error":"No path provided"}
ERR_NO_PATH ==
  <<123, 34, 115, 117, 99, 99, 101, 115, 115, 34, 58, 102, 97, 108, 115, 101, 44, 34, 101, 114, 114, 111, 114, 34, 58, 34, 78, 111, 32, 112, 97, 116, 104, 32, 112, 114, 111, 118, 105, 100, 101, 100, 34, 125>>
\* {"success":false,"error":"Cannot stat file"}
ERR_STAT ==
  <<123, 34, 115, 117, 99, 99, 101, 115, 115, 34, 58, 102, 97, 108, 115, 101, 44, 34, 101, 114, 114, 111, 114, 34, 58, 34, 67, 97, 110, 110, 111, 116, 32, 115, 116, 97, 116, 32, 102, 105, 108, 101, 34, 125>>
\* {"success":false,"error":"Cannot open file"}
ERR_OPEN ==
  <<123, 34, 115, 117, 99, 99, 101, 115, 115, 34, 58, 102, 97, 108, 115, 101, 44, 34, 101, 114, 114, 111, 114, 34, 58, 34, 67, 97, 110, 110, 111, 116, 32, 111, 112, 101, 110, 32, 102, 105, 108, 101, 34, 125>>
\* {"success":false,"error":"File too large (max 10MB)"}
ERR_TOO_LARGE ==
  <<123, 34, 115, 117, 99, 99, 101, 115, 115, 34, 58, 102, 97, 108, 115, 101, 44, 34, 101, 114, 114, 111, 114, 34, 58, 34, 70, 105, 108, 101, 32, 116, 111, 111, 32, 108, 97, 114, 103, 101, 32, 40, 109, 97, 120, 32, 49, 48, 77, 66, 41, 34, 125>>
\* {"success":false,"error":"Memory allocation failed"}
ERR_ALLOC ==
  <<123, 34, 115, 117, 99, 99, 101, 115, 115, 34, 58, 102, 97, 108, 115, 101, 44, 34, 101, 114, 114, 111, 114, 34, 58, 34, 77, 101, 109, 111, 114, 121, 32, 97, 108, 108, 111, 99, 97, 116, 105, 111, 110, 32, 102, 97, 105, 108, 101, 100, 34, 125>>
\* {"success":false,"error":"Failed to escape content"}
ERR_ESCAPE ==
  <<123, 34, 115, 117, 99, 99, 101, 115, 115, 34, 58, 102, 97, 108, 115, 101, 44, 34, 101, 114, 114, 111, 114, 34, 58, 34, 70, 97, 105, 108, 101, 100, 32, 116, 111, 32, 101, 115, 99, 97, 112, 101, 32, 99, 111, 110, 116, 101, 110, 116, 34, 125>>
\* {"success":true,"content":"
FMT_CONTENT ==
  <<123, 34, 115, 117, 99, 99, 101, 115, 115, 34, 58, 116, 114, 117, 101, 44, 34, 99, 111, 110, 116, 101, 110, 116, 34, 58, 34>>
\* ","path":"
FMT_PATH ==
  <<34, 44, 34, 112, 97, 116, 104, 34, 58, 34>>
\* ","name":"
FMT_NAME ==
  <<34, 44, 34, 110, 97, 109, 101, 34, 58, 34>>
\* ","size":
FMT_SIZE ==
  <<34, 44, 34, 115, 105, 122, 101, 34, 58>>
\* ,"prevSize":
FMT_PREVSIZE ==
  <<44, 34, 112, 114, 101, 118, 83, 105, 122, 101, 34, 58>>
\* }
FMT_END ==
  <<125>>

\* the literals as byte strings
Text_ERR_NO_PATH == FromSeq(ERR_NO_PATH)
Text_ERR_STAT == FromSeq(ERR_STAT)
Text_ERR_OPEN == FromSeq(ERR_OPEN)
Text_ERR_TOO_LARGE == FromSeq(ERR_TOO_LARGE)
Text_ERR_ALLOC == FromSeq(ERR_ALLOC)
Text_ERR_ESCAPE == FromSeq(ERR_ESCAPE)
Text_FMT_CONTENT == FromSeq(FMT_CONTENT)
Text_FMT_PATH == FromSeq(FMT_PATH)
Text_FMT_NAME == FromSeq(FMT_NAME)
Text_FMT_END == FromSeq(FMT_END)

Ret(text, h) == [response |-> text, handles |-> h]


\* a variant of the no-growth test that lets offset = size through
NoGrowthStrict(off, size) == off > 0 /\ size < off

\* if (offset > 0 && current_size <= offset)
NoGrowth(off, size) == off > 0 /\ size <= off

\* the response of the no-growth path, char response[256]
NoGrowthResponse(size, off) ==
  snprintf(256,
    FromSeq(FMT_CONTENT \o FMT_SIZE \o Dec(size)
            \o FMT_PREVSIZE \o Dec(off) \o FMT_END))

\* long read_start = (offset > 0) ? offset : 0
ReadStart(off) == IF off > 0 THEN off ELSE 0


\* a variant of the size guard that also rejects exactly MAX_FILE_SIZE
TooLargeAtLimit(n) == n >= MAX_FILE_SIZE

\* if (read_size > MAX_FILE_SIZE)
TooLarge(n) == n > MAX_FILE_SIZE


\* a variant of the too-large exit that forgets fclose
TooLargeExitLeak(h) == Ret(Text_ERR_TOO_LARGE, h)

\* the exit of the size guard: fclose(f), then the failure
TooLargeExit(h) == Ret(Text_ERR_TOO_LARGE, fclose(h))

\* the exit when malloc(read_size + 1) fails: fclose(f), then the failure
ContentAllocExit(h) == Ret(Text_ERR_ALLOC, fclose(h))

\* the response of a read, built after the file is closed
BuildResponse(path, off, cur, buf, env, h) ==
  LET name == basename(path)
      bytes_read == RLen(buf)
      escaped_content ==
        IF env.fail = "malloc_escape" THEN Null
        ELSE Ptr(json_escape(buf, bytes_read))
  IN IF escaped_content.null THEN Ret(Text_ERR_ESCAPE, h)
     ELSE IF env.fail = "malloc_response" THEN Ret(Text_ERR_ALLOC, h)
     ELSE LET response_size ==
                RLen(escaped_content.s) + RLen(path) + RLen(name) + 256
              text ==
                RCat(Text_FMT_CONTENT,
                RCat(escaped_content.s,
                RCat(Text_FMT_PATH,
                RCat(path,
                RCat(Text_FMT_NAME,
                RCat(name,
                     FromSeq(FMT_SIZE \o Dec(cur)
                             \o FMT_PREVSIZE \o Dec(off) \o FMT_END)))))))
          IN Ret(snprintf(response_size, text), h)

\* from fopen on: the handle h is open
ReadOpened(path, offset, f, current_size, env, h) ==
  LET read_start == ReadStart(offset)
      read_size  == current_size - read_start
  IN IF TooLarge(read_size) THEN TooLargeExit(h)
     ELSE IF env.fail = "malloc_content" THEN ContentAllocExit(h)
     ELSE LET content == fread(f, read_start, read_size, env)
          IN BuildResponse(path, offset, current_size, content, env, fclose(h))

read_file(path, offset, f, env) ==
  IF path = <<>> THEN Ret(Text_ERR_NO_PATH, NoHandles)
  ELSE IF env.fail = "stat" THEN Ret(Text_ERR_STAT, NoHandles)
  ELSE LET st_size == RLen(f)
       IN IF NoGrowth(offset, st_size)
          THEN Ret(NoGrowthResponse(st_size, offset), NoHandles)
          ELSE IF env.fail = "open" THEN Ret(Text_ERR_OPEN, NoHandles)
          ELSE ReadOpened(path, offset, f, st_size, env, fopen(NoHandles))

(***************************************************************************)
(* The receiving side: standard JSON decoding of what the bindings return  *)
(***************************************************************************)
HexVal(c) ==
  IF c \in 48..57 THEN c - 48
  ELSE IF c \in 97..102 THEN c - 87
  ELSE IF c \in 65..70 THEN c - 55
  ELSE -1

\* the bytes (UTF-8) of the code point of a \uXXXX escape
Utf8(cp) ==
  IF cp < 128 THEN <<cp>>
  ELSE IF cp < 2048 THEN <<192 + (cp \div 64), 128 + (cp % 64)>>
  ELSE <<224 + (cp \div 4096), 128 + ((cp \div 64) % 64), 128 + (cp % 64)>>

SimpleEscapes == {QUOTE, BACKSLASH, 47, 98, 102, 110, 114, 116}

Unescape(e) ==
  CASE e = 98  -> 8
    [] e = 102 -> 12
    [] e = 110 -> 10
    [] e = 114 -> 13
    [] e = 116 -> 9
    [] OTHER   -> e

BadScan == [ok |-> FALSE, bytes |-> <<>>, rest |-> <<>>]

\* a JSON string from just after its opening quote: the decoded bytes up to
\* the first unescaped quote, and the text after that quote
RECURSIVE ScanString(_, _)
ScanString(s, out) ==
  IF s = <<>> THEN BadScan
  ELSE LET c == Head(s).ch IN
    IF c = QUOTE THEN [ok |-> TRUE, bytes |-> out, rest |-> RDrop(s, 1)]
    ELSE IF c = BACKSLASH THEN
      LET s1 == RDrop(s, 1) IN
      IF s1 = <<>> THEN BadScan
      ELSE LET e == Head(s1).ch IN
        IF e \in SimpleEscapes
        THEN ScanString(RDrop(s1, 1), RCat(out, <<Run(Unescape(e), 1)>>))
        ELSE IF e = 117
        THEN LET h == RPlain(RDrop(s1, 1), 4) IN
             IF Len(h) = 4 /\ \A i \in 1..4 : HexVal(h[i]) >= 0
             THEN ScanString(RDrop(s1, 5),
                    RCat(out, FromSeq(Utf8(HexVal(h[1]) * 4096
                      + HexVal(h[2]) * 256 + HexVal(h[3]) * 16 + HexVal(h[4])))))
             ELSE BadScan
        ELSE BadScan
    ELSE IF c < 32 THEN BadScan
    ELSE ScanString(Tail(s), RCat(out, <<Head(s)>>))

\* the body of a JSON string (without its quotes) decoded
JsonDecode(body) ==
  LET r == ScanString(RCat(body, <<Run(QUOTE, 1)>>), <<>>)
  IN [ok |-> r.ok /\ r.rest = <<>>, bytes |-> r.bytes]

RECURSIVE ScanDigits(_, _, _)
ScanDigits(s, val, any) ==
  IF s # <<>> /\ Head(s).ch \in 48..57
  THEN ScanDigits(RDrop(s, 1), val * 10 + (Head(s).ch - 48), TRUE)
  ELSE [ok |-> any, val |-> val, rest |-> s]

\* a JSON integer
ScanNumber(s) ==
  IF s # <<>> /\ Head(s).ch = 45
  THEN LET r == ScanDigits(RDrop(s, 1), 0, FALSE)
       IN [ok |-> r.ok, val |-> 0 - r.val, rest |-> r.rest]
  ELSE ScanDigits(s, 0, FALSE)

Malformed ==
  [wf |-> FALSE, success |-> FALSE, error |-> <<>>, content |-> <<>>,
   hasPath |-> FALSE, path |-> <<>>, name |-> <<>>, size |-> 0, prevSize |-> 0]

Failure(err) == [Malformed EXCEPT !.wf = TRUE, !.error = err]

ReadErrors ==
  {Text_ERR_NO_PATH, Text_ERR_STAT, Text_ERR_OPEN, Text_ERR_TOO_LARGE,
   Text_ERR_ALLOC, Text_ERR_ESCAPE}

\* the members of the success payload, as they follow a closing quote
KEY_SIZE == FromSeq(Tail(FMT_SIZE))
KEY_PREVSIZE == FromSeq(FMT_PREVSIZE)
KEY_PATH == FromSeq(Tail(FMT_PATH))
KEY_NAME == FromSeq(Tail(FMT_NAME))

\* ,"size":N,"prevSize":M} at the end of a success payload
ParseSizes(s, fields) ==
  IF ~RStartsWith(s, KEY_SIZE) THEN Malformed
  ELSE LET a == ScanNumber(RDrop(s, RLen(KEY_SIZE))) IN
    IF ~a.ok \/ ~RStartsWith(a.rest, KEY_PREVSIZE) THEN Malformed
    ELSE LET b == ScanNumber(RDrop(a.rest, RLen(KEY_PREVSIZE))) IN
      IF ~b.ok \/ b.rest # Text_FMT_END THEN Malformed
      ELSE [fields EXCEPT !.wf = TRUE, !.success = TRUE,
                          !.size = a.val, !.prevSize = b.val]

\* ,"path":"..","name":".." and the sizes
ParsePathName(s, fields) ==
  LET p == ScanString(RDrop(s, RLen(KEY_PATH)), <<>>) IN
  IF ~p.ok \/ ~RStartsWith(p.rest, KEY_NAME) THEN Malformed
  ELSE LET n == ScanString(RDrop(p.rest, RLen(KEY_NAME)), <<>>) IN
    IF ~n.ok THEN Malformed
    ELSE ParseSizes(n.rest, [fields EXCEPT !.hasPath = TRUE,
                                           !.path = p.bytes, !.name = n.bytes])

\* what the caller of readFile reads in the payload
ParseResponse(text) ==
  IF text \in ReadErrors THEN Failure(text)
  ELSE IF ~RStartsWith(text, Text_FMT_CONTENT) THEN Malformed
  ELSE LET c == ScanString(RDrop(text, RLen(Text_FMT_CONTENT)), <<>>) IN
    IF ~c.ok THEN Malformed
    ELSE LET base == [Malformed EXCEPT !.content = c.bytes] IN
      IF RStartsWith(c.rest, KEY_PATH) THEN ParsePathName(c.rest, base)
      ELSE ParseSizes(c.rest, base)

(***************************************************************************)
(* The reader: one file, named by every non-empty path.  A caller sends    *)
(* readFile(path, offset) and read_file runs to its return; the caller     *)
(* then takes the response.  Between calls the file grows or is cut.       *)
(*   SpecRead: callers read at any offset and keep nothing.                *)
(*   SpecViewer: the viewer opens the file at offset 0 and polls at        *)
(*   lastKnownSize, keeping its FileReadState and what it received.        *)
(***************************************************************************)
\* a, d/a, d\a, a"b
Paths ==
  { <<>>,
    <<Run(97, 1)>>,
    <<Run(100, 1), Run(47, 1), Run(97, 1)>>,
    <<Run(100, 1), Run(BACKSLASH, 1), Run(97, 1)>>,
    <<Run(97, 1), Run(QUOTE, 1), Run(98, 1)>> }

ViewerPaths == { <<Run(100, 1), Run(47, 1), Run(97, 1)>> }

\* what one append adds: a byte, or a block of MAX_FILE_SIZE plain bytes
Chunks == { Run(97, 1), Run(QUOTE, 1), Run(98, MAX_FILE_SIZE) }

Offsets ==
  {-1, 0, 1, RLen(file), RLen(file) + 1, RLen(file) - MAX_FILE_SIZE,
   RLen(file) - MAX_FILE_SIZE - 1}

ViewerOffsets == {0} \cup (IF viewer.open THEN {viewer.lastKnownSize} ELSE {})

NoViewer ==
  [open |-> FALSE, lastKnownSize |-> 0, acc |-> <<>>, appendOnly |-> TRUE]

NoRead ==
  [called |-> FALSE, path |-> <<>>, offset |-> 0,
   env |-> [fail |-> "none", short |-> "full"],
   response |-> <<>>, handles |-> NoHandles]

\* FileReadState: created on a read at offset 0, moved to the returned size
\* by every successful read at lastKnownSize
ViewerAfter(offset, p) ==
  IF ~(p.wf /\ p.success) THEN viewer
  ELSE IF offset = 0
  THEN [open |-> TRUE, lastKnownSize |-> p.size, acc |-> p.content,
        appendOnly |-> TRUE]
  ELSE [viewer EXCEPT !.lastKnownSize = p.size,
                      !.acc = RCat(viewer.acc, p.content)]

\* the binding readFile runs read_file on the caller's arguments
Call(paths, offsets) ==
  \E path \in paths, offset \in offsets, env \in Envs :
    /\ ~lastRead.called
    /\ offset >= -1
    /\ LET r == read_file(path, offset, file, env)
       IN lastRead' =
            [called |-> TRUE, path |-> path, offset |-> offset, env |-> env,
             response |-> r.response, handles |-> r.handles]
    /\ UNCHANGED <<file, appends, cuts, viewer, store, clock, adds, lastAdd, pc, loc,
                   input, escaped>>

ReadFile == Call(Paths, Offsets)

Receive ==
  /\ lastRead.called
  /\ lastRead' = NoRead
  /\ UNCHANGED <<file, appends, cuts, viewer, store, clock, adds, lastAdd, pc, loc, input,
                 escaped>>

ViewerRead == Call(ViewerPaths, ViewerOffsets)

ViewerReceive ==
  /\ lastRead.called
  /\ viewer' = ViewerAfter(lastRead.offset, ParseResponse(lastRead.response))
  /\ lastRead' = NoRead
  /\ UNCHANGED <<file, appends, cuts, store, clock, adds, lastAdd, pc, loc, input, escaped>>

AppendFile ==
  \E c \in Chunks :
    /\ ~lastRead.called
    /\ appends < MaxAppends
    /\ file' = RCat(file, <<c>>)
    /\ appends' = appends + 1
    /\ UNCHANGED <<cuts, viewer, lastRead, store, clock, adds, lastAdd, pc, loc, input,
                   escaped>>

\* the file is cut (truncated, or rotated to a shorter one)
TruncateFile ==
  \E k \in {0, RLen(file) - 1} :
    /\ ~lastRead.called
    /\ cuts < MaxCuts
    /\ 0 <= k /\ k < RLen(file)
    /\ file' = RTake(file, k)
    /\ cuts' = cuts + 1
    /\ viewer' = [viewer EXCEPT !.appendOnly = FALSE]
    /\ UNCHANGED <<appends, lastRead, store, clock, adds, lastAdd, pc, loc, input,
                   escaped>>

CloseViewer ==
  /\ ~lastRead.called
  /\ viewer.open
  /\ viewer' = NoViewer
  /\ UNCHANGED <<file, appends, cuts, lastRead, store, clock, adds, lastAdd, pc, loc,
                 input, escaped>>

NoStore == [exists |-> FALSE, text |-> <<>>]
NoExchange ==
  [op |-> "none", path |-> <<>>, t |-> 0, fail |-> "none", before |-> NoStore,
   getFail |-> "none", returned |-> <<>>]

InitRead ==
  /\ file = <<>>
  /\ appends = 0
  /\ cuts = 0
  /\ viewer = NoViewer
  /\ lastRead = NoRead
  /\ store = NoStore
  /\ clock = 0
  /\ adds = 0
  /\ lastAdd = NoExchange
  /\ pc = <<>>
  /\ loc = <<>>
  /\ input = <<>>
  /\ escaped = NotEscaped

NextRead == ReadFile \/ Receive \/ AppendFile \/ TruncateFile

SpecRead == InitRead /\ [][NextRead]_vars

NextViewer ==
  ViewerRead \/ ViewerReceive \/ AppendFile \/ TruncateFile \/ CloseViewer

SpecViewer == InitRead /\ [][NextViewer]_vars

(***************************************************************************)
(* Properties of read_file.  While a response is in flight (lastRead       *)
(* .called) the file is the file the call read.  In each formula, got is   *)
(* the response as its receiver decodes it.                                *)
(***************************************************************************)
Parsed == ParseResponse(lastRead.response)
CurrentSize == RLen(file)

\* the bytes of f in [from, to)
Range(f, from, to) == RTake(RDrop(f, from), to - from)

\* the call got past the path check and stat
Statted == lastRead.called /\ lastRead.path # <<>> /\ lastRead.env.fail # "stat"

\* the decoded response is a success payload
Success(r) == r.wf /\ r.success

\* C2: in every successful result, content is exactly the bytes of the file
\* in [previousOffset, currentSize) at the time of reading (empty if the file
\* has not grown), and a read at offset 0 of a file of size S returns S bytes
\* and currentSize = S.
C2_ContentIsRange ==
  (lastRead.called /\ lastRead.offset >= 0) =>
    LET got == Parsed IN
    Success(got) =>
      /\ got.content = Range(file, got.prevSize, got.size)
      /\ lastRead.offset = 0 =>
           (RLen(got.content) = CurrentSize /\ got.size = CurrentSize)

\* What holds of the content: it is the bytes fread returned, the range
\* when fread returned all of them.
ContentIsWhatWasRead ==
  (lastRead.called /\ lastRead.offset >= 0) =>
    LET got == Parsed IN
    Success(got) =>
      /\ got.size = CurrentSize /\ got.prevSize = lastRead.offset
      /\ lastRead.env.short = "full" =>
           got.content = Range(file, got.prevSize, got.size)
      /\ got.content
           = RTake(Range(file, got.prevSize, got.size), RLen(got.content))

\* C3: a read with offset > 0 and currentSize <= offset returns success with
\* empty content, the current size and previousOffset = offset, without path
\* or name and without opening the file; a read at offset = currentSize
\* returns empty content and the unchanged currentSize.
C3_NoGrowth ==
  lastRead.called =>
    LET got == Parsed IN
    /\ (Statted /\ lastRead.offset > 0 /\ CurrentSize <= lastRead.offset) =>
         /\ Success(got)
         /\ got.content = <<>>
         /\ got.size = CurrentSize
         /\ got.prevSize = lastRead.offset
         /\ ~got.hasPath
         /\ lastRead.handles.total = 0
    /\ (Success(got) /\ lastRead.offset = CurrentSize) =>
         (got.content = <<>> /\ got.size = CurrentSize)

\* the file shrank below a positive offset and the poll was answered
C3_Witness ==
  /\ Statted /\ lastRead.offset > 0 /\ file # <<>>
  /\ CurrentSize < lastRead.offset
  /\ cuts > 0
  /\ Success(Parsed)

\* C4 as stated: whenever the file can be statted and the window exceeds
\* 10 MiB the result is FileTooLarge, decided before the file is opened.
C4_GuardBeforeOpen ==
  (Statted /\ lastRead.offset >= 0
           /\ CurrentSize - lastRead.offset > MAX_FILE_SIZE) =>
    (lastRead.response = Text_ERR_TOO_LARGE /\ lastRead.handles.total = 0)

\* C4 amended: the guard is decided after fopen.  When the file can be
\* statted and opened and the window exceeds 10 MiB the result is FileTooLarge
\* (never content), the handle opened being closed; when it cannot be opened
\* the result is OpenError; a window of exactly 10 MiB is not rejected.
C4_GuardAfterOpen ==
  (Statted /\ lastRead.offset >= 0) =>
    /\ (CurrentSize - lastRead.offset > MAX_FILE_SIZE) =>
         IF lastRead.env.fail = "open"
         THEN lastRead.response = Text_ERR_OPEN /\ lastRead.handles.total = 0
         ELSE /\ lastRead.response = Text_ERR_TOO_LARGE
              /\ lastRead.handles = [open |-> 0, total |-> 1]
    /\ (CurrentSize - lastRead.offset = MAX_FILE_SIZE) =>
         /\ lastRead.response # Text_ERR_TOO_LARGE
         /\ lastRead.env = [fail |-> "none", short |-> "full"] =>
              LET got == Parsed IN
              got.wf => (got.success /\ RLen(got.content) = MAX_FILE_SIZE)

\* a poll at offset 1 whose window is one byte over the cap was refused
C4_Witness ==
  /\ Statted /\ lastRead.offset = 1
  /\ CurrentSize - lastRead.offset = MAX_FILE_SIZE + 1
  /\ lastRead.response = Text_ERR_TOO_LARGE

\* C9: when read returns, no handle it opened is still open, on the
\* FileTooLarge, allocation-failure and success paths alike; and no handle is
\* opened on the MissingPath, StatError and no-growth paths.
C9_HandlesReleased ==
  lastRead.called =>
    /\ lastRead.handles.open = 0
    /\ lastRead.handles.total <= 1
    /\ (\/ lastRead.path = <<>>
        \/ lastRead.env.fail = "stat"
        \/ (lastRead.offset > 0 /\ CurrentSize <= lastRead.offset)) =>
         lastRead.handles.total = 0
    /\ (\/ lastRead.response
             \in {Text_ERR_TOO_LARGE, Text_ERR_ALLOC, Text_ERR_ESCAPE}
        \/ (/\ RStartsWith(lastRead.response, Text_FMT_CONTENT)
            /\ ~NoGrowth(lastRead.offset, CurrentSize))) =>
         lastRead.handles.total = 1

\* the size guard refused a file that had been opened
C9_Witness ==
  /\ lastRead.called
  /\ lastRead.response = Text_ERR_TOO_LARGE
  /\ lastRead.handles = [open |-> 0, total |-> 1]

\* C10: the success payload of a read is well formed and its decoded path and
\* name are the supplied path and its basename.
C10_PathAndNameSafe ==
  (/\ lastRead.called
   /\ RStartsWith(lastRead.response, Text_FMT_CONTENT)
   /\ ~NoGrowth(lastRead.offset, CurrentSize)) =>
    LET got == Parsed IN
    /\ got.wf /\ got.hasPath
    /\ got.path = lastRead.path
    /\ got.name = basename(lastRead.path)

\* C1: for the viewer's reads (the first at offset 0, each later one at the
\* size the previous one returned) of a file only appended to, the contents
\* returned, concatenated, are the file at the time of the last read.
C1_Concatenation ==
  (/\ lastRead.called
   /\ lastRead.offset = 0 \/ (viewer.open /\ viewer.appendOnly)) =>
    LET got == Parsed IN
    Success(got) => ViewerAfter(lastRead.offset, got).acc = file

\* What holds of the viewer: as long as no read came back short, it has
\* received the whole file.
ConcatenationUnlessShort ==
  (/\ lastRead.called
   /\ lastRead.env.short = "full"
   /\ lastRead.offset = 0
      \/ (viewer.open /\ viewer.appendOnly
          /\ viewer.acc = RTake(file, viewer.lastKnownSize))) =>
    LET got == Parsed IN
    Success(got) => ViewerAfter(lastRead.offset, got).acc = file

(***************************************************************************)
(* json_escape on its own: any bytes in, the escaped string (or NULL when  *)
(* malloc fails) out.                                                      *)
(***************************************************************************)
\* NUL, 0x01, \b, \t, \n, \f, \r, 0x1f, ", 0, \, n, u, 0xff
EscBytes == {0, 1, 8, 9, 10, 12, 13, 31, QUOTE, 48, BACKSLASH, 110, 117, 255}

RECURSIVE SeqsUpTo(_, _)
SeqsUpTo(S, n) ==
  IF n = 0 THEN { <<>> }
  ELSE LET shorter == SeqsUpTo(S, n - 1)
       IN shorter \cup { Append(q, c) : q \in shorter, c \in S }

InitEscape ==
  /\ input \in { FromSeq(q) : q \in SeqsUpTo(EscBytes, MaxEscLen) }
  /\ escaped = NotEscaped
  /\ file = <<>>
  /\ appends = 0
  /\ cuts = 0
  /\ viewer = NoViewer
  /\ lastRead = NoRead
  /\ store = NoStore
  /\ clock = 0
  /\ adds = 0
  /\ lastAdd = NoExchange
  /\ pc = <<>>
  /\ loc = <<>>

\* char* escaped = json_escape(input, len)
Escape ==
  \E mallocOk \in BOOLEAN :
    /\ ~escaped.called
    /\ escaped' = [called |-> TRUE, null |-> ~mallocOk,
                   s |-> IF mallocOk THEN json_escape(input, RLen(input))
                         ELSE <<>>]
    /\ UNCHANGED <<input, file, appends, cuts, viewer, lastRead, store, clock,
                   adds, lastAdd, pc, loc>>

NextEscape == Escape

SpecEscape == InitEscape /\ [][NextEscape]_vars

\* every byte of s is one json_escape passes through
RECURSIVE AllPlain(_)
AllPlain(s) ==
  s = <<>> \/ (/\ Head(s).ch >= 32
               /\ Head(s).ch \notin {QUOTE, BACKSLASH}
               /\ AllPlain(Tail(s)))

\* C5: escaping any byte sequence with json_escape and decoding the result as
\* a JSON string gives the sequence back; bytes >= 32 other than the quote
\* and the backslash are emitted unchanged.
C5_RoundTrip ==
  (escaped.called /\ ~escaped.null) =>
    LET back == JsonDecode(escaped.s) IN
    /\ back.ok
    /\ back.bytes = input
    /\ AllPlain(input) => escaped.s = input

\* a quote, a backslash and the control byte 0x01 were escaped
C5_Witness ==
  /\ escaped.called /\ ~escaped.null
  /\ input = FromSeq(<<QUOTE, BACKSLASH, 1>>)
  /\ escaped.s # input

(***************************************************************************)
(* The recent-files store: <home>/.mocha/recent.json                       *)
(***************************************************************************)
\* {"path":"
FMT_ENTRY_PATH ==
  <<123, 34, 112, 97, 116, 104, 34, 58, 34>>
\* ","name":"
FMT_ENTRY_NAME ==
  <<34, 44, 34, 110, 97, 109, 101, 34, 58, 34>>
\* ","lastOpened":
FMT_ENTRY_OPENED ==
  <<34, 44, 34, 108, 97, 115, 116, 79, 112, 101, 110, 101, 100, 34, 58>>

LBRACKET == 91
RBRACKET == 93
COMMA == 44
RBRACE == 125

Text_EMPTY_LIST == FromSeq(<<LBRACKET, RBRACKET>>)
Text_FMT_ENTRY_PATH == FromSeq(FMT_ENTRY_PATH)
Text_FMT_ENTRY_NAME == FromSeq(FMT_ENTRY_NAME)
Text_FMT_ENTRY_OPENED == FromSeq(FMT_ENTRY_OPENED)

\* what fails in one call, if anything
AddFailPoints ==
  {"none", "mkdir", "open_read", "malloc_existing", "short_read",
   "malloc_new", "open_write", "write"}

GetFailPoints == {"none", "open", "malloc", "short_read"}

\* long long now = (long long)time(NULL) * 1000
NowMillis(t) == t * 1000

\* {"path":"%s","name":"%s","lastOpened":%lld}
EntryText(file_path, name, now) ==
  RCat(Text_FMT_ENTRY_PATH,
  RCat(file_path,
  RCat(Text_FMT_ENTRY_NAME,
  RCat(name,
  RCat(Text_FMT_ENTRY_OPENED, FromSeq(Dec(now) \o <<RBRACE>>))))))


\* a variant of the read of the existing list that never finds one
ReadNothing(st, fail) == Null

\* the existing list as add_recent_file reads it: NULL when the file cannot
\* be opened, is empty, or the buffer cannot be allocated
ReadExisting(st, fail) ==
  IF ~st.exists \/ fail \in {"mkdir", "open_read"} THEN Null
  ELSE LET existing_size == RLen(st.text)
       IN IF existing_size <= 0 \/ fail = "malloc_existing" THEN Null
          ELSE LET bytes_read == IF fail = "short_read"
                                 THEN existing_size - 1 ELSE existing_size
               IN Ptr(RTake(st.text, bytes_read))

\* if (existing && strlen(existing) > 2)
HasEntries(existing) == ~existing.null /\ RLen(existing.s) > 2

\* the new array: the entry spliced in front of the existing one
BuildJson(file_path, now, existing) ==
  LET name == basename(file_path)
      new_json_size ==
        RLen(file_path) + RLen(name)
        + (IF existing.null THEN 0 ELSE RLen(existing.s)) + 256
      entry == EntryText(file_path, name, now)
  IN snprintf(new_json_size,
       IF HasEntries(existing)
       THEN RCat(<<Run(LBRACKET, 1)>>,
            RCat(entry,
            RCat(<<Run(COMMA, 1)>>, RDrop(existing.s, 1))))
       ELSE RCat(<<Run(LBRACKET, 1)>>, RCat(entry, <<Run(RBRACKET, 1)>>)))

\* f = fopen(recent_path, "w"): the file is created or emptied
OpenForWrite(st) == [exists |-> TRUE, text |-> <<>>]

\* fputs(new_json, f); fclose(f): the bytes land at the start of the file
Fputs(st, new_json) ==
  [exists |-> TRUE, text |-> RCat(new_json, RDrop(st.text, RLen(new_json)))]

\* the write back
WriteBack(st, new_json, fail) ==
  IF fail \in {"mkdir", "open_write"} THEN st
  ELSE IF fail = "write" THEN OpenForWrite(st)
  ELSE Fputs(OpenForWrite(st), new_json)

add_recent_file(file_path, t, st, fail) ==
  IF file_path = <<>> THEN st
  ELSE LET now == NowMillis(t)
           existing == ReadExisting(st, fail)
       IN IF fail = "malloc_new" THEN st
          ELSE WriteBack(st, BuildJson(file_path, now, existing), fail)

get_recent_files(st, fail) ==
  IF ~st.exists \/ fail = "open" THEN Text_EMPTY_LIST
  ELSE LET size == RLen(st.text)
       IN IF size <= 0 \/ fail = "malloc" THEN Text_EMPTY_LIST
          ELSE RTake(st.text, IF fail = "short_read" THEN size - 1 ELSE size)

(***************************************************************************)
(* The list as the frontend reads it with JSON.parse                        *)
(***************************************************************************)
NoList == [wf |-> FALSE, entries |-> <<>>]

\* one {"path":..,"name":..,"lastOpened":..} object at the start of s
ParseEntry(s) ==
  IF ~RStartsWith(s, Text_FMT_ENTRY_PATH) THEN [ok |-> FALSE]
  ELSE LET p == ScanString(RDrop(s, RLen(Text_FMT_ENTRY_PATH)), <<>>)
           keyName == FromSeq(Tail(FMT_ENTRY_NAME))
           keyOpened == FromSeq(Tail(FMT_ENTRY_OPENED))
       IN
    IF ~p.ok \/ ~RStartsWith(p.rest, keyName) THEN [ok |-> FALSE]
    ELSE LET n == ScanString(RDrop(p.rest, RLen(keyName)), <<>>) IN
      IF ~n.ok \/ ~RStartsWith(n.rest, keyOpened) THEN [ok |-> FALSE]
      ELSE LET o == ScanNumber(RDrop(n.rest, RLen(keyOpened))) IN
        IF ~o.ok \/ ~RStartsWith(o.rest, <<Run(RBRACE, 1)>>) THEN [ok |-> FALSE]
        ELSE [ok |-> TRUE,
              entry |-> [path |-> p.bytes, name |-> n.bytes,
                         lastOpened |-> o.val],
              rest |-> RDrop(o.rest, 1)]

RECURSIVE ParseEntries(_, _)
ParseEntries(s, acc) ==
  LET e == ParseEntry(s) IN
  IF ~e.ok THEN NoList
  ELSE IF e.rest = <<Run(RBRACKET, 1)>>
       THEN [wf |-> TRUE, entries |-> Append(acc, e.entry)]
  ELSE IF RStartsWith(e.rest, <<Run(COMMA, 1)>>)
       THEN ParseEntries(RDrop(e.rest, 1), Append(acc, e.entry))
  ELSE NoList

ParseList(text) ==
  IF text = Text_EMPTY_LIST THEN [wf |-> TRUE, entries |-> <<>>]
  ELSE IF RStartsWith(text, <<Run(LBRACKET, 1)>>)
       THEN ParseEntries(RDrop(text, 1), <<>>)
  ELSE NoList

(***************************************************************************)
(* The store used by one client at a time                                  *)
(***************************************************************************)
\* "", a, d/a, d\a
StorePaths ==
  { <<>>,
    <<Run(97, 1)>>,
    <<Run(100, 1), Run(47, 1), Run(97, 1)>>,
    <<Run(100, 1), Run(BACKSLASH, 1), Run(97, 1)>> }

InitStore ==
  /\ store = NoStore
  /\ clock = 1
  /\ adds = 0
  /\ lastAdd = NoExchange
  /\ file = <<>>
  /\ appends = 0
  /\ cuts = 0
  /\ viewer = NoViewer
  /\ lastRead = NoRead
  /\ pc = <<>>
  /\ loc = <<>>
  /\ input = <<>>
  /\ escaped = NotEscaped

\* the addRecentFile binding
AddRecentFile ==
  \E file_path \in StorePaths, fail \in AddFailPoints :
    /\ adds < MaxAdds
    /\ fail = "mkdir" => ~store.exists
    /\ store' = add_recent_file(file_path, clock, store, fail)
    /\ adds' = adds + 1
    /\ lastAdd' = [op |-> "add", path |-> file_path, t |-> clock,
                   fail |-> fail, before |-> store, getFail |-> "none",
                   returned |-> <<>>]
    /\ UNCHANGED <<clock, file, appends, cuts, viewer, lastRead, pc, loc,
                   input, escaped>>

\* the getRecentFiles binding
GetRecentFiles ==
  \E fail \in GetFailPoints :
    /\ lastAdd.op \in {"none", "add"}
    /\ lastAdd' = [lastAdd EXCEPT
                     !.op = IF lastAdd.op = "add" THEN "addget" ELSE "get",
                     !.getFail = fail,
                     !.returned = get_recent_files(store, fail)]
    /\ UNCHANGED <<store, clock, adds, file, appends, cuts, viewer, lastRead,
                   pc, loc, input, escaped>>

\* time passes
Tick ==
  /\ clock < MaxClock
  /\ clock' = clock + 1
  /\ UNCHANGED <<store, adds, lastAdd, file, appends, cuts, viewer, lastRead,
                 pc, loc, input, escaped>>

NextStore == AddRecentFile \/ GetRecentFiles \/ Tick

SpecStore == InitStore /\ [][NextStore]_vars

\* the entry an add of file_path at time t stands for
EntryOf(file_path, t) ==
  [path |-> file_path, name |-> basename(file_path),
   lastOpened |-> NowMillis(t)]

\* C6: adding a path p and then asking for the list returns a list whose
\* first entry has path p, name basename(p) and lastOpened the time of the
\* add, followed by the previous entries in their previous order (here: when
\* nothing failed in either call and the previous list was well formed).
C6_AddThenGet ==
  (/\ lastAdd.op = "addget"
   /\ lastAdd.path # <<>>
   /\ lastAdd.fail = "none"
   /\ lastAdd.getFail = "none") =>
    LET prev == ParseList(get_recent_files(lastAdd.before, "none"))
        got == ParseList(lastAdd.returned)
    IN prev.wf =>
         /\ got.wf
         /\ got.entries = <<EntryOf(lastAdd.path, lastAdd.t)>> \o prev.entries

\* the same for a path made of bytes that need no escaping
AddThenGetPlainPath ==
  AllPlain(lastAdd.path) => C6_AddThenGet

\* C7: whatever fails during an add (directory, opening or reading the
\* existing file, a buffer, writing the new file), the list in the store is
\* afterwards either what it was or the new entry in front of the full
\* existing list.
C7_UnchangedOrFullyUpdated ==
  lastAdd.op = "add" =>
    LET after == get_recent_files(store, "none")
        full == add_recent_file(lastAdd.path, lastAdd.t, lastAdd.before, "none")
    IN \/ after = get_recent_files(lastAdd.before, "none")
       \/ after = get_recent_files(full, "none")

\* an add during which nothing fails does update the store in full
AddWithoutFailure ==
  (lastAdd.op = "add" /\ lastAdd.fail = "none") =>
    store = add_recent_file(lastAdd.path, lastAdd.t, lastAdd.before, "none")

(***************************************************************************)
(* Two clients in add_recent_file at once.  Each reads the store, builds   *)
(* its array, opens the file for writing and writes; nothing holds the     *)
(* other back in between.                                                  *)
(***************************************************************************)
Clients == {1, 2}

\* a, d/a
ConcPaths ==
  { <<Run(97, 1)>>,
    <<Run(100, 1), Run(47, 1), Run(97, 1)>> }

Other(c) == 3 - c

NoLocals ==
  [path |-> <<>>, t |-> 0, seen |-> NoStore, new_json |-> <<>>,
   overlapped |-> FALSE, latest |-> FALSE, done |-> 0]

InitConc ==
  /\ store \in { NoStore,
                 add_recent_file(<<Run(98, 1)>>, 1, NoStore, "none") }
  /\ clock = 1
  /\ adds = 0
  /\ pc = [c \in Clients |-> "idle"]
  /\ loc = [c \in Clients |-> NoLocals]
  /\ lastAdd = NoExchange
  /\ file = <<>>
  /\ appends = 0
  /\ cuts = 0
  /\ viewer = NoViewer
  /\ lastRead = NoRead
  /\ input = <<>>
  /\ escaped = NotEscaped

\* from the entry of add_recent_file to free(existing): the store is read and
\* the new array built
AddRead(c) ==
  \E file_path \in ConcPaths :
    /\ pc[c] = "idle"
    /\ adds < MaxAdds
    /\ adds' = adds + 1
    /\ pc' = [pc EXCEPT ![c] = "open"]
    /\ loc' = [loc EXCEPT ![c] =
                 [@ EXCEPT !.path = file_path, !.t = clock, !.seen = store,
                           !.new_json =
                             BuildJson(file_path, NowMillis(clock),
                                       ReadExisting(store, "none"))]]
    /\ UNCHANGED <<store, clock, lastAdd, file, appends, cuts, viewer,
                   lastRead, input, escaped>>

\* f = fopen(recent_path, "w")
AddOpen(c) ==
  /\ pc[c] = "open"
  /\ store' = OpenForWrite(store)
  /\ pc' = [pc EXCEPT ![c] = "write"]
  /\ loc' = [loc EXCEPT ![c].overlapped = FALSE,
                        ![Other(c)].latest = FALSE]
  /\ UNCHANGED <<clock, adds, lastAdd, file, appends, cuts, viewer, lastRead,
                 input, escaped>>

\* fputs(new_json, f); fclose(f); free(new_json)
AddWrite(c) ==
  /\ pc[c] = "write"
  /\ store' = Fputs(store, loc[c].new_json)
  /\ pc' = [pc EXCEPT ![c] = "idle"]
  /\ loc' = [loc EXCEPT ![c].latest = TRUE,
                        ![c].done = @ + 1,
                        ![Other(c)].latest = FALSE,
                        ![Other(c)].overlapped =
                          @ \/ pc[Other(c)] = "write"]
  /\ UNCHANGED <<clock, adds, lastAdd, file, appends, cuts, viewer, lastRead,
                 input, escaped>>

NextConc == \E c \in Clients : AddRead(c) \/ AddOpen(c) \/ AddWrite(c)

SpecConc == InitConc /\ [][NextConc]_vars

\* the list a reader finds in st
ListIn(st) == ParseList(get_recent_files(st, "none"))

\* C8: nothing orders two concurrent adds: a client writes its entry in
\* front of the list it read at its start, whatever the other client has
\* written since.  Whenever the store is as a returned add left it (and the
\* other client did not write into the file while that add had it open), it
\* holds that add's entry followed by the entries that add had read.
C8_WriteOverwritesWithStaleList ==
  \A c \in Clients :
    (/\ pc[c] = "idle"
     /\ loc[c].latest
     /\ ~loc[c].overlapped
     /\ ListIn(loc[c].seen).wf) =>
      /\ ListIn(store).wf
      /\ ListIn(store).entries =
           <<EntryOf(loc[c].path, loc[c].t)>> \o ListIn(loc[c].seen).entries

\* both clients read the same list, both adds completed, and the store holds
\* the entry of one of them only
C8_Witness ==
  /\ \A c \in Clients : pc[c] = "idle" /\ loc[c].done = 1
  /\ loc[1].seen = loc[2].seen
  /\ loc[1].path # loc[2].path
  /\ ListIn(store).wf
  /\ \E c \in Clients :
       /\ \E i \in 1..Len(ListIn(store).entries) :
            ListIn(store).entries[i].path = loc[c].path
       /\ \A i \in 1..Len(ListIn(store).entries) :
            ListIn(store).entries[i].path # loc[Other(c)].path

====
